---- MODULE Spec2Model ----
(***************************************************************************)
(* Movie-Rating-System: the service layer (app/services), the repository   *)
(* layer (app/repositories) and the relational store they query.           *)
(*                                                                         *)
(* A request is handled in one step (the handlers are synchronous and the  *)
(* model serves one request at a time): the step reads the tables, writes  *)
(* them, and leaves the request and its outcome in `request` and           *)
(* `response`; Complete hands the outcome back and returns to idle.        *)
(*                                                                         *)
(* Encodings.  Optional[x] is <<>> (None) or <<x>>.  A title is a sequence *)
(* of one-character strings.  For the title and genre filters None and the *)
(* empty string are one value (<<>> and ""): the code tests them with      *)
(* `if title:` / `if genre:`, which cannot tell them apart.  A SQL average *)
(* is the exact pair <<sum, count>>; a rounded average is a whole number   *)
(* of tenths (6.0 is 60).  The order of a movie's genre names is not fixed *)
(* by the query, so the list of names is kept as a set.                    *)
(***************************************************************************)
EXTENDS Integers, Sequences, FiniteSets, TLC

VARIABLES directors, genres, movies, movie_genres, movie_ratings,
          last_movie_id, last_rating_id, session, request, response, inflight,
          engine, SessionLocal

tables == <<directors, genres, movies, movie_genres, movie_ratings,
            last_movie_id, last_rating_id>>
vars == <<directors, genres, movies, movie_genres, movie_ratings,
          last_movie_id, last_rating_id, session, request, response, inflight,
          engine, SessionLocal>>

-----------------------------------------------------------------------------
(* Bounds of the exploration *)

MaxMovies == 2
MaxRatings == 3

(* Configuration and literals of the program *)

MAX_PAGE_SIZE == 2
MIN_RELEASE_YEAR == 2
current_year == 3
MinScore == 1
MaxScore == 10

None == <<>>
Some(x) == <<x>>

Range(s) == {s[i] : i \in 1..Len(s)}

-----------------------------------------------------------------------------
(* The store's rows before any request: two directors and two genres,     *)
(* created out of band (there is no endpoint that creates them).          *)

SeedDirectors ==
    (1 :> [name |-> "d1", birth_year |-> Some(1), description |-> None]) @@
    (2 :> [name |-> "d2", birth_year |-> None, description |-> Some("x")])

SeedGenres == (1 :> [name |-> "drama"]) @@ (2 :> [name |-> "comedy"])

NoRequest == [op |-> "idle"]

(* No Session is open and no transaction is pending.  `open` counts the    *)
(* Sessions made by the session factory and not yet closed.                *)
NoSession == [pending |-> FALSE, open |-> 0]

(* The worker processes that serve add_rating requests side by side, and   *)
(* a worker that serves none.                                              *)
Workers == {1, 2}
NoWork == [pc |-> "idle"]
NoResponse == [kind |-> "idle", message |-> "", calls |-> <<>>, data |-> None]

Init ==
    /\ directors = SeedDirectors
    /\ genres = SeedGenres
    /\ movies = <<>>
    /\ movie_genres = {}
    /\ movie_ratings = <<>>
    /\ last_movie_id = 0
    /\ last_rating_id = 0
    /\ session = NoSession
    /\ inflight = [w \in Workers |-> NoWork]
    /\ engine = None
    /\ SessionLocal = None
    /\ request = NoRequest
    /\ response = NoResponse

Idle == request.op = "idle"

(* The outcome of a handler that raised the exception `kind`, whose text   *)
(* str(ex) is `message`, after the repository calls `calls`, and of one    *)
(* that returned `data`.                                                   *)
Raised(kind, message, calls) ==
    [kind |-> kind, message |-> message, calls |-> calls, data |-> None]
Returned(calls, data) ==
    [kind |-> "success", message |-> "", calls |-> calls, data |-> data]

(* str(ex) of the exceptions that are raised by the interpreter, by        *)
(* SQLAlchemy and by the database driver rather than by a raise statement  *)
(* of the program.                                                         *)
ExceptionText(kind) ==
    CASE kind = "TypeError" ->
            "'rated_at' is an invalid keyword argument for MovieRating"
      [] kind = "IntegrityError" ->
            "(psycopg2.errors.ForeignKeyViolation) insert or update violates foreign key constraint"
      [] kind = "DataError" ->
            "(psycopg2.errors.InvalidRowCountInResultOffsetClause) OFFSET must not be negative"
      [] kind = "OperationalError" ->
            "(psycopg2.OperationalError) connection to server failed"
      [] OTHER -> kind

-----------------------------------------------------------------------------
(* The relational store: constraints of the schema                         *)

(* The schema without its CHECK on score *)
RatingRowAcceptedNoCheck(movie_id, score) == movie_id \in DOMAIN movies

(* movie_ratings accepts a row whose movie exists (foreign key) and whose  *)
(* score passes CHECK (score BETWEEN 1 AND 10).                            *)
RatingRowAccepted(movie_id, score) ==
    /\ movie_id \in DOMAIN movies
    /\ score >= 1 /\ score <= 10

NextRatingId == last_rating_id + 1

(* A client of the database other than this program inserts a rating row   *)
(* (seed data); the database rejects the rows its constraints forbid.      *)
InsertRatingRow(movie_id, score) ==
    /\ Idle
    /\ UNCHANGED <<session, inflight, engine, SessionLocal>>
    /\ last_rating_id < MaxRatings
    /\ IF RatingRowAccepted(movie_id, score)
       THEN /\ movie_ratings' =
                  Append(movie_ratings,
                         [id |-> NextRatingId, movie_id |-> movie_id, score |-> score])
            /\ last_rating_id' = NextRatingId
       ELSE UNCHANGED <<movie_ratings, last_rating_id>>
    /\ UNCHANGED <<directors, genres, movies, movie_genres, last_movie_id,
                   request, response>>

-----------------------------------------------------------------------------
(* MovieRepository: queries                                                *)

(* The tables a query reads, as one value. *)
Store ==
    [directors |-> directors, genres |-> genres, movies |-> movies,
     movie_genres |-> movie_genres, movie_ratings |-> movie_ratings]

(* ILIKE compares without regard to case. *)
Lower(c) == IF c = "A" THEN "a" ELSE IF c = "B" THEN "b" ELSE c

(* SQL LIKE: in the pattern "%" stands for any run of characters and "_"   *)
(* for any one character.                                                   *)
RECURSIVE LikeMatch(_, _)
LikeMatch(pattern, text) ==
    IF pattern = <<>> THEN text = <<>>
    ELSE IF Head(pattern) = "%"
    THEN \/ LikeMatch(Tail(pattern), text)
         \/ text # <<>> /\ LikeMatch(pattern, Tail(text))
    ELSE /\ text # <<>>
         /\ Head(pattern) = "_" \/ Lower(Head(pattern)) = Lower(Head(text))
         /\ LikeMatch(Tail(pattern), Tail(text))

(* Movie.title.ilike(f"%{title}%") *)
TitleILike(movie_title, title) == LikeMatch(<<"%">> \o title \o <<"%">>, movie_title)

(* MovieRepository._apply_filters on a query over movies: the rows of the  *)
(* filtered query, <<movie id, joined movie_genres row or None>>.          *)
ApplyFilters(db, title, release_year, genre) ==
    LET kept == {m \in DOMAIN db.movies :
                    /\ title # <<>> => TitleILike(db.movies[m].title, title)
                    /\ release_year # None => db.movies[m].release_year = release_year}
    IN IF genre # ""
       THEN {<<mg[1], mg>> : mg \in {x \in db.movie_genres :
                                        /\ x[1] \in kept
                                        /\ x[2] \in DOMAIN db.genres
                                        /\ db.genres[x[2]].name = genre}}
       ELSE {<<m, None>> : m \in kept}

(* ORDER BY id over a set of ids *)
RECURSIVE OrderById(_)
OrderById(ids) ==
    IF ids = {} THEN <<>>
    ELSE LET least == CHOOSE i \in ids : \A j \in ids : i <= j
         IN <<least>> \o OrderById(ids \ {least})

(* OFFSET offset LIMIT limit over the ordered rows *)
OffsetLimit(rows, offset, limit) ==
    [i \in 1..(IF Len(rows) - offset < limit
               THEN (IF Len(rows) - offset < 0 THEN 0 ELSE Len(rows) - offset)
               ELSE limit) |-> rows[offset + i]]

RECURSIVE SumScores(_)
SumScores(rows) == IF rows = <<>> THEN 0 ELSE Head(rows).score + SumScores(Tail(rows))

RatingsOf(db, movie_id) == SelectSeq(db.movie_ratings, LAMBDA r : r.movie_id = movie_id)

(* The grouped query of _fetch_movies_with_ratings: movie id -> avg(score) *)
(* for the movies of `ids` that have ratings.                              *)
AvgByMovie(db, ids) ==
    [m \in {i \in ids : RatingsOf(db, i) # <<>>} |->
        <<SumScores(RatingsOf(db, m)), Len(RatingsOf(db, m))>>]

(* MovieRepository._format_movie *)
FormatMovie(db, id, ratings) ==
    LET movie == db.movies[id]
    IN [id |-> id,
        title |-> movie.title,
        release_year |-> movie.release_year,
        cast |-> movie.cast,
        director |->
            IF movie.director_id \in DOMAIN db.directors
            THEN [id |-> Some(movie.director_id),
                  name |-> Some(db.directors[movie.director_id].name),
                  birth_year |-> db.directors[movie.director_id].birth_year,
                  description |-> db.directors[movie.director_id].description]
            ELSE [id |-> None, name |-> None, birth_year |-> None, description |-> None],
        genres |-> {db.genres[mg[2]].name :
                       mg \in {x \in db.movie_genres :
                                  x[1] = id /\ x[2] \in DOMAIN db.genres}},
        average_rating |-> IF id \in DOMAIN ratings THEN Some(ratings[id]) ELSE None,
        ratings_count |-> Len(RatingsOf(db, id))]

(* MovieRepository._fetch_movies_with_ratings *)
FetchMoviesWithRatings(db, ids) ==
    LET ratings == AvgByMovie(db, Range(ids))
    IN [i \in 1..Len(ids) |-> FormatMovie(db, ids[i], ratings)]

(* MovieRepository.list_paginated.  PostgreSQL refuses a negative OFFSET   *)
(* or LIMIT.                                                               *)
ListPaginated(db, page, page_size, title, release_year, genre) ==
    LET offset == (page - 1) * page_size
        filtered == ApplyFilters(db, title, release_year, genre)
        total_items == Cardinality({row[1] : row \in filtered})
        distinct_on_id == OrderById({row[1] : row \in filtered})
    IN IF offset < 0 \/ page_size < 0
       THEN [raised |-> "DataError", items |-> <<>>, total_items |-> 0]
       ELSE [raised |-> "",
             items |-> FetchMoviesWithRatings(db, OffsetLimit(distinct_on_id, offset, page_size)),
             total_items |-> total_items]

(* MovieRepository.get_by_id: None or the formatted movie *)
GetById(db, movie_id) ==
    IF movie_id \notin DOMAIN db.movies THEN None
    ELSE Some(FetchMoviesWithRatings(db, <<movie_id>>)[1])

(* MovieRepository.exists_director *)
ExistsDirector(db, director_id) == director_id \in DOMAIN db.directors

(* MovieRepository.count_genres_by_ids *)
CountGenresByIds(db, genre_ids) ==
    IF genre_ids = <<>> THEN 0
    ELSE Cardinality({g \in DOMAIN db.genres : g \in Range(genre_ids)})

(* create_movie without its inserts into movie_genres *)
RepoCreateMovieNoLinks(db, seq, title, director_id, release_year, cast, genre_ids) ==
    LET id == seq + 1
        movie == [title |-> title, director_id |-> director_id,
                  release_year |-> release_year, cast |-> cast]
        after == [db EXCEPT !.movies = db.movies @@ (id :> movie)]
    IN IF director_id \in DOMAIN db.directors
       THEN [raised |-> "", db |-> after, seq |-> id, movie |-> GetById(after, id)]
       ELSE [raised |-> "IntegrityError", db |-> db, seq |-> id, movie |-> None]

(* MovieRepository.create_movie.  The movie row is inserted at flush and  *)
(* takes the next id of the sequence; the movie_genres rows are inserted   *)
(* at commit.  A row the schema refuses (foreign keys of movies and        *)
(* movie_genres, the uniqueness of a movie_genres pair) raises, the        *)
(* session closes without commit and the transaction is rolled back; the   *)
(* sequence is not.  `db` is the store afterwards.                         *)
RepoCreateMovie(db, seq, title, director_id, release_year, cast, genre_ids) ==
    LET id == seq + 1
        movie == [title |-> title, director_id |-> director_id,
                  release_year |-> release_year, cast |-> cast]
        accepted == /\ director_id \in DOMAIN db.directors
                    /\ \A i \in 1..Len(genre_ids) : genre_ids[i] \in DOMAIN db.genres
                    /\ \A i, j \in 1..Len(genre_ids) : genre_ids[i] = genre_ids[j] => i = j
        after == [db EXCEPT !.movies = db.movies @@ (id :> movie),
                            !.movie_genres = db.movie_genres \cup
                                {<<id, genre_ids[i]>> : i \in 1..Len(genre_ids)}]
    IN IF accepted
       THEN [raised |-> "", db |-> after, seq |-> id, movie |-> GetById(after, id)]
       ELSE [raised |-> "IntegrityError", db |-> db, seq |-> id, movie |-> None]

(* MovieRepository.create_movie statement by statement.  `session` is the  *)
(* open transaction of its Session: rows it has written are seen by no     *)
(* other transaction until commit, and leaving the `with` block on an      *)
(* exception closes the Session, which rolls the transaction back.         *)

(* session.flush() in a connection that commits every statement *)
SessionFlushAutocommit(db, seq, title, director_id, release_year, cast) ==
    LET id == seq + 1
        movie == [title |-> title, director_id |-> director_id,
                  release_year |-> release_year, cast |-> cast]
    IN IF director_id \in DOMAIN db.directors
       THEN [raised |-> "", seq |-> id,
             db |-> [db EXCEPT !.movies = db.movies @@ (id :> movie)],
             session |-> [pending |-> TRUE, open |-> 1, id |-> id, movie |-> movie]]
       ELSE [raised |-> "IntegrityError", seq |-> id, db |-> db, session |-> NoSession]

(* The flush in a Session that is made without `with` and closed only on   *)
(* the way out of a call that did not raise                                *)
SessionFlushNoWith(db, seq, title, director_id, release_year, cast) ==
    LET id == seq + 1
        movie == [title |-> title, director_id |-> director_id,
                  release_year |-> release_year, cast |-> cast]
    IN IF director_id \in DOMAIN db.directors
       THEN [raised |-> "", seq |-> id, db |-> db,
             session |-> [pending |-> TRUE, open |-> 1, id |-> id, movie |-> movie]]
       ELSE [raised |-> "IntegrityError", seq |-> id, db |-> db,
             session |-> [pending |-> FALSE, open |-> 1]]

(* session.add(movie); session.flush(): INSERT INTO movies inside the      *)
(* transaction.  The sequence gives the id, the foreign key to directors   *)
(* is checked.                                                             *)
SessionFlush(db, seq, title, director_id, release_year, cast) ==
    LET id == seq + 1
        movie == [title |-> title, director_id |-> director_id,
                  release_year |-> release_year, cast |-> cast]
    IN IF director_id \in DOMAIN db.directors
       THEN [raised |-> "", seq |-> id, db |-> db,
             session |-> [pending |-> TRUE, open |-> 1, id |-> id, movie |-> movie]]
       ELSE [raised |-> "IntegrityError", seq |-> id, db |-> db, session |-> NoSession]

(* session.add(mg) for each genre id; session.commit(): the movie_genres   *)
(* rows are inserted (foreign key to genres, one row per pair) and the     *)
(* transaction commits, or the insert raises and nothing is committed.     *)
SessionCommit(db, open, genre_ids) ==
    LET accepted == /\ \A i \in 1..Len(genre_ids) : genre_ids[i] \in DOMAIN db.genres
                    /\ \A i, j \in 1..Len(genre_ids) : genre_ids[i] = genre_ids[j] => i = j
        after == [db EXCEPT !.movies = [m \in DOMAIN db.movies \cup {open.id} |->
                                          IF m = open.id THEN open.movie ELSE db.movies[m]],
                            !.movie_genres = db.movie_genres \cup
                                {<<open.id, genre_ids[i]>> : i \in 1..Len(genre_ids)}]
    IN IF accepted
       THEN [raised |-> "", db |-> after, movie |-> GetById(after, open.id)]
       ELSE [raised |-> "IntegrityError", db |-> db, movie |-> None]

(* The first statements of MovieRepository.create_movie, up to the flush *)
RepoCreateMovieFlush(title, director_id, release_year, cast, genre_ids) ==
    /\ Idle
    /\ last_movie_id < MaxMovies
    /\ request' = [op |-> "repo_create_movie", title |-> title,
                   director_id |-> director_id, release_year |-> release_year,
                   cast |-> cast, genre_ids |-> genre_ids]
    /\ LET r == SessionFlush(Store, last_movie_id, title, director_id,
                             release_year, cast)
       IN /\ session' = r.session
          /\ last_movie_id' = r.seq
          /\ movies' = r.db.movies
          /\ response' = IF r.raised # ""
                         THEN Raised(r.raised, ExceptionText(r.raised), <<"create_movie">>)
                         ELSE [kind |-> "pending", message |-> "",
                               calls |-> <<"create_movie">>, data |-> None]
    /\ UNCHANGED <<directors, genres, movie_genres, movie_ratings, last_rating_id,
                   inflight, engine, SessionLocal>>

(* The rest of MovieRepository.create_movie: the links, the commit and the *)
(* read of the created movie.                                              *)
RepoCreateMovieCommit ==
    /\ session.pending
    /\ LET r == SessionCommit(Store, session, request.genre_ids)
       IN /\ movies' = r.db.movies
          /\ movie_genres' = r.db.movie_genres
          /\ response' = IF r.raised # ""
                         THEN Raised(r.raised, ExceptionText(r.raised), <<"create_movie">>)
                         ELSE Returned(<<"create_movie">>, r.movie[1])
    /\ session' = NoSession
    /\ UNCHANGED <<directors, genres, movie_ratings, last_movie_id, last_rating_id,
                   request, inflight, engine, SessionLocal>>

(* RatingRepository.add_rating statement by statement: the `with` block is *)
(* entered, which makes a Session, and the movie is looked up ...          *)
RepoAddRatingQuery(movie_id, score) ==
    /\ Idle
    /\ last_rating_id < MaxRatings
    /\ request' = [op |-> "repo_add_rating", movie_id |-> movie_id, score |-> score]
    /\ session' = [pending |-> FALSE, open |-> 1]
    /\ response' = [kind |-> "pending", message |-> "", calls |-> <<"add_rating">>,
                    data |-> None]
    /\ UNCHANGED <<tables, inflight, engine, SessionLocal>>

(* MovieRepository.update_movie, as MovieService.update_movie calls it and  *)
(* as the repository operations document it: None for a missing movie;     *)
(* else the title, release year and cast are replaced, the movie's genre   *)
(* links are replaced by the requested ones, in one transaction, and the   *)
(* updated movie is returned.                                              *)
RepoUpdateMovie(db, movie_id, title, release_year, cast, genre_ids) ==
    LET accepted == /\ \A i \in 1..Len(genre_ids) : genre_ids[i] \in DOMAIN db.genres
                    /\ \A i, j \in 1..Len(genre_ids) : genre_ids[i] = genre_ids[j] => i = j
        after == [db EXCEPT !.movies[movie_id] =
                                [@ EXCEPT !.title = title,
                                          !.release_year = release_year,
                                          !.cast = cast],
                            !.movie_genres =
                                {mg \in db.movie_genres : mg[1] # movie_id} \cup
                                {<<movie_id, genre_ids[i]>> : i \in 1..Len(genre_ids)}]
    IN IF movie_id \notin DOMAIN db.movies
       THEN [raised |-> "", db |-> db, movie |-> None]
       ELSE IF ~accepted
       THEN [raised |-> "IntegrityError", db |-> db, movie |-> None]
       ELSE [raised |-> "", db |-> after, movie |-> GetById(after, movie_id)]

(* MovieRepository.delete_movie, as MovieService.delete_movie calls it and  *)
(* as the repository operations document it: FALSE for a missing movie;    *)
(* else the movie is deleted together with its genre links and ratings.    *)
RepoDeleteMovie(db, movie_id) ==
    IF movie_id \notin DOMAIN db.movies
    THEN [ok |-> FALSE, db |-> db]
    ELSE [ok |-> TRUE,
          db |-> [db EXCEPT
                    !.movies = [m \in DOMAIN db.movies \ {movie_id} |-> db.movies[m]],
                    !.movie_genres = {mg \in db.movie_genres : mg[1] # movie_id},
                    !.movie_ratings = SelectSeq(db.movie_ratings,
                                                LAMBDA r : r.movie_id # movie_id)]]

-----------------------------------------------------------------------------
(* MovieService                                                            *)

(* MovieService._validate_pagination: "" or the exception raised *)
ValidatePagination(page_size) ==
    IF page_size > MAX_PAGE_SIZE THEN "ValidationError" ELSE ""

(* The year test without its upper bound *)
ValidateReleaseYearNoUpperBound(release_year) ==
    IF release_year = None THEN "TypeError"
    ELSE IF release_year[1] < MIN_RELEASE_YEAR THEN "ValidationError"
    ELSE ""

(* str(ex) of what _validate_release_year raises *)
ReleaseYearText(kind) ==
    IF kind = "ValidationError" THEN "Invalid release_year"
    ELSE "'<' not supported between instances of 'NoneType' and 'int'"

(* MovieService._validate_release_year: "" or the exception raised.  The   *)
(* comparison of None with an int raises TypeError.                        *)
ValidateReleaseYear(release_year) ==
    IF release_year = None THEN "TypeError"
    ELSE IF release_year[1] < MIN_RELEASE_YEAR \/ release_year[1] > current_year
    THEN "ValidationError"
    ELSE ""

(* Truncation to one decimal instead of rounding *)
TruncateOneDecimal(avg) == (10 * avg[1]) \div avg[2]

(* round(float(avg), 1), in tenths.  float(avg) is exact at the ties the    *)
(* model reaches (x.25 and x.75; another tie needs twenty ratings), and    *)
(* round() takes an exact tie to the even digit.                          *)
RoundOneDecimal(avg) ==
    LET q == (10 * avg[1]) \div avg[2]
        r == (10 * avg[1]) % avg[2]
    IN IF 2 * r < avg[2] THEN q
       ELSE IF 2 * r > avg[2] THEN q + 1
       ELSE IF q % 2 = 0 THEN q ELSE q + 1

(* MovieService._format_output *)
FormatOutput(raw, detail) ==
    LET average_rating ==
            IF raw.average_rating = None THEN None
            ELSE Some(RoundOneDecimal(raw.average_rating[1]))
    IN IF detail
       THEN [id |-> raw.id, title |-> raw.title, release_year |-> raw.release_year,
             director |-> raw.director, genres |-> raw.genres,
             average_rating |-> average_rating,
             cast |-> raw.cast, ratings_count |-> raw.ratings_count]
       ELSE [id |-> raw.id, title |-> raw.title, release_year |-> raw.release_year,
             director |-> [id |-> raw.director.id, name |-> raw.director.name],
             genres |-> raw.genres,
             average_rating |-> average_rating]

(* MovieService.get_movies_paginated *)
ServiceGetMoviesPaginated(db, page, page_size, title, release_year, genre) ==
    IF ValidatePagination(page_size) # ""
    THEN Raised(ValidatePagination(page_size),
                "page_size must be between 1 and MAX_PAGE_SIZE", <<>>)
    ELSE IF release_year # None /\ ValidateReleaseYear(release_year) # ""
    THEN Raised(ValidateReleaseYear(release_year),
                ReleaseYearText(ValidateReleaseYear(release_year)), <<>>)
    ELSE LET r == ListPaginated(db, page, page_size, title, release_year, genre)
             calls == <<"list_paginated">>
         IN IF r.raised # "" THEN Raised(r.raised, ExceptionText(r.raised), calls)
            ELSE Returned(calls,
                    [page |-> page, page_size |-> page_size,
                     total_items |-> r.total_items,
                     items |-> [i \in 1..Len(r.items) |-> FormatOutput(r.items[i], FALSE)]])

(* MovieService.get_movie_detail *)
ServiceGetMovieDetail(db, movie_id) ==
    LET raw == GetById(db, movie_id)
        calls == <<"get_by_id">>
    IN IF raw = None THEN Raised("NotFoundError", "Movie not found", calls)
       ELSE Returned(calls, FormatOutput(raw[1], TRUE))

(* MovieService.create_movie: the outcome, and the store and the sequence  *)
(* afterwards.                                                             *)
ServiceCreateMovie(db, seq, title, director_id, release_year, cast, genre_ids) ==
    LET unchanged(resp) == [response |-> resp, db |-> db, seq |-> seq]
    IN IF ValidateReleaseYear(release_year) # ""
       THEN unchanged(Raised(ValidateReleaseYear(release_year),
                             ReleaseYearText(ValidateReleaseYear(release_year)), <<>>))
       ELSE IF ~ExistsDirector(db, director_id)
       THEN unchanged(Raised("ValidationError", "Invalid director_id or genres",
                             <<"exists_director">>))
       ELSE IF CountGenresByIds(db, genre_ids) # Len(genre_ids)
       THEN unchanged(Raised("ValidationError", "Invalid director_id or genres",
                             <<"exists_director", "count_genres_by_ids">>))
       ELSE LET r == RepoCreateMovie(db, seq, title, director_id, release_year,
                                     cast, genre_ids)
                calls == <<"exists_director", "count_genres_by_ids", "create_movie">>
            IN IF r.raised # ""
               THEN [response |-> Raised(r.raised, ExceptionText(r.raised), calls),
                     db |-> r.db, seq |-> r.seq]
               ELSE [response |-> Returned(calls, FormatOutput(r.movie[1], TRUE)),
                     db |-> r.db, seq |-> r.seq]

(* create_movie statement by statement.  Its checks, each in a Session of  *)
(* its own that is closed before the next statement ...                    *)
ServiceCreateMovieChecks(title, director_id, release_year, cast, genre_ids) ==
    /\ Idle
    /\ last_movie_id < MaxMovies
    /\ request' = [op |-> "create_movie", title |-> title,
                   director_id |-> director_id, release_year |-> release_year,
                   cast |-> cast, genre_ids |-> genre_ids]
    /\ response' =
          IF ValidateReleaseYear(release_year) # ""
          THEN Raised(ValidateReleaseYear(release_year),
                      ReleaseYearText(ValidateReleaseYear(release_year)), <<>>)
          ELSE IF ~ExistsDirector(Store, director_id)
          THEN Raised("ValidationError", "Invalid director_id or genres",
                      <<"exists_director">>)
          ELSE IF CountGenresByIds(Store, genre_ids) # Len(genre_ids)
          THEN Raised("ValidationError", "Invalid director_id or genres",
                      <<"exists_director", "count_genres_by_ids">>)
          ELSE [kind |-> "pending", message |-> "",
                calls |-> <<"exists_director", "count_genres_by_ids">>, data |-> None]
    /\ UNCHANGED <<tables, session, inflight, engine, SessionLocal>>

(* ... and then the repository's create_movie up to its flush, on the      *)
(* database as it is by then.                                              *)
ServiceCreateMovieFlush ==
    /\ request.op = "create_movie"
    /\ response.kind = "pending"
    /\ session.open = 0
    /\ LET r == SessionFlush(Store, last_movie_id, request.title, request.director_id,
                             request.release_year, request.cast)
       IN /\ session' = r.session
          /\ last_movie_id' = r.seq
          /\ movies' = r.db.movies
          /\ response' = IF r.raised # ""
                         THEN Raised(r.raised, ExceptionText(r.raised),
                                     Append(response.calls, "create_movie"))
                         ELSE [response EXCEPT
                                 !.calls = Append(response.calls, "create_movie")]
    /\ UNCHANGED <<directors, genres, movie_genres, movie_ratings, last_rating_id,
                   request, inflight, engine, SessionLocal>>

(* The value of movies.director_id after ON DELETE SET NULL: NULL, which   *)
(* is no director's id.                                                    *)
NullDirectorId == 0

(* A client of the database other than this program deletes a director.    *)
(* movies.director_id is declared ON DELETE SET NULL.  The delete waits    *)
(* for a transaction that has inserted a movie of this director and has    *)
(* not committed yet.                                                      *)
DeleteDirectorRow(director_id) ==
    /\ director_id \in DOMAIN directors
    /\ ~(session.pending /\ session.movie.director_id = director_id)
    /\ directors' = [d \in DOMAIN directors \ {director_id} |-> directors[d]]
    /\ movies' = [m \in DOMAIN movies |->
                    IF movies[m].director_id = director_id
                    THEN [movies[m] EXCEPT !.director_id = NullDirectorId]
                    ELSE movies[m]]
    /\ UNCHANGED <<genres, movie_genres, movie_ratings, last_movie_id, last_rating_id,
                   session, request, response, inflight, engine, SessionLocal>>

(* A client of the database other than this program deletes a genre.       *)
(* movie_genres.genre_id is declared ON DELETE CASCADE.                    *)
DeleteGenreRow(genre_id) ==
    /\ genre_id \in DOMAIN genres
    /\ genres' = [g \in DOMAIN genres \ {genre_id} |-> genres[g]]
    /\ movie_genres' = {mg \in movie_genres : mg[2] # genre_id}
    /\ UNCHANGED <<directors, movies, movie_ratings, last_movie_id, last_rating_id,
                   session, request, response, inflight, engine, SessionLocal>>

(* The payload of update_movie: the detail payload and a timestamp taken   *)
(* at the time of the call.                                                *)
WithUpdatedAt(out) == [f \in DOMAIN out \cup {"updated_at"} |->
                          IF f = "updated_at" THEN "utcnow" ELSE out[f]]

(* update_movie that looks the movie up before it validates *)
ServiceUpdateMovieLookupFirst(db, movie_id, title, release_year, cast, genre_ids) ==
    LET unchanged(resp) == [response |-> resp, db |-> db]
    IN IF GetById(db, movie_id) = None
       THEN unchanged(Raised("NotFoundError", "Movie not found", <<"get_by_id">>))
       ELSE IF ValidateReleaseYear(release_year) # ""
       THEN unchanged(Raised(ValidateReleaseYear(release_year),
                             ReleaseYearText(ValidateReleaseYear(release_year)),
                             <<"get_by_id">>))
       ELSE IF CountGenresByIds(db, genre_ids) # Len(genre_ids)
       THEN unchanged(Raised("ValidationError", "Invalid director_id or genres",
                             <<"get_by_id", "count_genres_by_ids">>))
       ELSE LET r == RepoUpdateMovie(db, movie_id, title, release_year, cast, genre_ids)
                calls == <<"get_by_id", "count_genres_by_ids", "update_movie">>
            IN IF r.raised # ""
               THEN [response |-> Raised(r.raised, ExceptionText(r.raised), calls),
                     db |-> r.db]
               ELSE [response |-> Returned(calls,
                                           WithUpdatedAt(FormatOutput(r.movie[1], TRUE))),
                     db |-> r.db]

(* update_movie without its call of the repository's update_movie *)
ServiceUpdateMovieNoWrite(db, movie_id, title, release_year, cast, genre_ids) ==
    LET unchanged(resp) == [response |-> resp, db |-> db]
        calls == <<"count_genres_by_ids", "get_by_id">>
    IN IF ValidateReleaseYear(release_year) # ""
       THEN unchanged(Raised(ValidateReleaseYear(release_year),
                             ReleaseYearText(ValidateReleaseYear(release_year)), <<>>))
       ELSE IF CountGenresByIds(db, genre_ids) # Len(genre_ids)
       THEN unchanged(Raised("ValidationError", "Invalid director_id or genres",
                             <<"count_genres_by_ids">>))
       ELSE IF GetById(db, movie_id) = None
       THEN unchanged(Raised("NotFoundError", "Movie not found", calls))
       ELSE unchanged(Returned(calls,
                               WithUpdatedAt(FormatOutput(GetById(db, movie_id)[1], TRUE))))

(* MovieService.update_movie *)
ServiceUpdateMovie(db, movie_id, title, release_year, cast, genre_ids) ==
    LET unchanged(resp) == [response |-> resp, db |-> db]
    IN IF ValidateReleaseYear(release_year) # ""
       THEN unchanged(Raised(ValidateReleaseYear(release_year),
                             ReleaseYearText(ValidateReleaseYear(release_year)), <<>>))
       ELSE IF CountGenresByIds(db, genre_ids) # Len(genre_ids)
       THEN unchanged(Raised("ValidationError", "Invalid director_id or genres",
                             <<"count_genres_by_ids">>))
       ELSE LET r == RepoUpdateMovie(db, movie_id, title, release_year, cast, genre_ids)
                calls == <<"count_genres_by_ids", "update_movie">>
            IN IF r.raised # ""
               THEN [response |-> Raised(r.raised, ExceptionText(r.raised), calls),
                     db |-> r.db]
               ELSE IF r.movie = None
               THEN [response |-> Raised("NotFoundError", "Movie not found", calls),
                     db |-> r.db]
               ELSE [response |-> Returned(calls,
                                           WithUpdatedAt(FormatOutput(r.movie[1], TRUE))),
                     db |-> r.db]

(* delete_movie without its call of the repository's delete_movie *)
ServiceDeleteMovieNoWrite(db, movie_id) ==
    IF GetById(db, movie_id) = None
    THEN [response |-> Raised("NotFoundError", "Movie not found", <<"get_by_id">>),
          db |-> db]
    ELSE [response |-> Returned(<<"get_by_id">>, None), db |-> db]

(* MovieService.delete_movie *)
ServiceDeleteMovie(db, movie_id) ==
    LET r == RepoDeleteMovie(db, movie_id)
        calls == <<"delete_movie">>
    IN IF ~r.ok
       THEN [response |-> Raised("NotFoundError", "Movie not found", calls),
             db |-> r.db]
       ELSE [response |-> Returned(calls, None), db |-> r.db]

(* The handlers of MovieService as steps *)

GetMoviesPaginated(page, page_size, title, release_year, genre) ==
    /\ Idle
    /\ UNCHANGED <<session, inflight, engine, SessionLocal>>
    /\ request' = [op |-> "get_movies_paginated", page |-> page,
                   page_size |-> page_size, title |-> title,
                   release_year |-> release_year, genre |-> genre]
    /\ response' = ServiceGetMoviesPaginated(Store, page, page_size, title,
                                             release_year, genre)
    /\ UNCHANGED tables

GetMovieDetail(movie_id) ==
    /\ Idle
    /\ UNCHANGED <<session, inflight, engine, SessionLocal>>
    /\ request' = [op |-> "get_movie_detail", movie_id |-> movie_id]
    /\ response' = ServiceGetMovieDetail(Store, movie_id)
    /\ UNCHANGED tables

CreateMovie(title, director_id, release_year, cast, genre_ids) ==
    /\ Idle
    /\ UNCHANGED <<session, inflight, engine, SessionLocal>>
    /\ last_movie_id < MaxMovies
    /\ request' = [op |-> "create_movie", title |-> title,
                   director_id |-> director_id, release_year |-> release_year,
                   cast |-> cast, genre_ids |-> genre_ids]
    /\ LET out == ServiceCreateMovie(Store, last_movie_id, title, director_id,
                                     release_year, cast, genre_ids)
       IN /\ response' = out.response
          /\ movies' = out.db.movies
          /\ movie_genres' = out.db.movie_genres
          /\ last_movie_id' = out.seq
    /\ UNCHANGED <<directors, genres, movie_ratings, last_rating_id>>

UpdateMovie(movie_id, title, release_year, cast, genre_ids) ==
    /\ Idle
    /\ UNCHANGED <<session, inflight, engine, SessionLocal>>
    /\ request' = [op |-> "update_movie", movie_id |-> movie_id, title |-> title,
                   release_year |-> release_year, cast |-> cast,
                   genre_ids |-> genre_ids]
    /\ LET out == ServiceUpdateMovie(Store, movie_id, title, release_year, cast,
                                     genre_ids)
       IN /\ response' = out.response
          /\ movies' = out.db.movies
          /\ movie_genres' = out.db.movie_genres
    /\ UNCHANGED <<directors, genres, movie_ratings, last_movie_id, last_rating_id>>

DeleteMovie(movie_id) ==
    /\ Idle
    /\ UNCHANGED <<session, inflight, engine, SessionLocal>>
    /\ request' = [op |-> "delete_movie", movie_id |-> movie_id]
    /\ LET out == ServiceDeleteMovie(Store, movie_id)
       IN /\ response' = out.response
          /\ movies' = out.db.movies
          /\ movie_genres' = out.db.movie_genres
          /\ movie_ratings' = out.db.movie_ratings
    /\ UNCHANGED <<directors, genres, last_movie_id, last_rating_id>>

-----------------------------------------------------------------------------
(* RatingRepository and RatingService                                      *)

(* The attributes the declarative constructor of MovieRating accepts as    *)
(* keyword arguments: its columns and its relationship.                    *)
MovieRatingAttributes == {"id", "movie_id", "score", "created_at", "movie"}

(* The keyword arguments RatingRepository.add_rating constructs it with.   *)
AddRatingKwargs == {"movie_id", "score", "rated_at"}

(* declarative_base()'s constructor raises TypeError on a keyword that is  *)
(* no attribute of the class.                                              *)
ConstructorAccepts(attributes, kwargs) == kwargs \subseteq attributes

(* add_rating without its lookup of the movie *)
RepoAddRatingNoLookup(movie_id, score) ==
    IF ~ConstructorAccepts(MovieRatingAttributes, AddRatingKwargs)
    THEN [raised |-> "TypeError", rating |-> None, rows |-> movie_ratings]
    ELSE IF ~RatingRowAccepted(movie_id, score)
    THEN [raised |-> "IntegrityError", rating |-> None, rows |-> movie_ratings]
    ELSE LET row == [id |-> NextRatingId, movie_id |-> movie_id, score |-> score]
         IN [raised |-> "", rating |-> Some(row), rows |-> Append(movie_ratings, row)]

(* RatingRepository.add_rating: `raised` is "" when it returns; `rating`   *)
(* is None when the movie is absent; `rows` is movie_ratings afterwards.   *)
RepoAddRating(movie_id, score) ==
    IF movie_id \notin DOMAIN movies
    THEN [raised |-> "", rating |-> None, rows |-> movie_ratings]
    ELSE IF ~ConstructorAccepts(MovieRatingAttributes, AddRatingKwargs)
    THEN [raised |-> "TypeError", rating |-> None, rows |-> movie_ratings]
    ELSE IF ~RatingRowAccepted(movie_id, score)
    THEN [raised |-> "IntegrityError", rating |-> None, rows |-> movie_ratings]
    ELSE LET row == [id |-> NextRatingId, movie_id |-> movie_id, score |-> score]
         IN [raised |-> "", rating |-> Some(row), rows |-> Append(movie_ratings, row)]

(* The test of the score without its lower bound *)
ScoreValidNoLowerBound(score) == ~(score > MaxScore)

(* RatingService.add_rating's test of the score (every score of the model  *)
(* is an int, so isinstance holds).                                        *)
ScoreValid(score) == ~(score < MinScore \/ score > MaxScore)

(* ... and the block is left, by `return None`, by the exception of the    *)
(* constructor or of the commit, or by `return rating`: each way closes    *)
(* the Session.                                                            *)
RepoAddRatingReturn ==
    /\ request.op = "repo_add_rating"
    /\ response.kind = "pending"
    /\ LET r == RepoAddRating(request.movie_id, request.score)
       IN /\ movie_ratings' = r.rows
          /\ last_rating_id' = IF r.rows = movie_ratings THEN last_rating_id
                               ELSE NextRatingId
          /\ response' = IF r.raised # ""
                         THEN Raised(r.raised, ExceptionText(r.raised), <<"add_rating">>)
                         ELSE Returned(<<"add_rating">>, r.rating)
    /\ session' = NoSession
    /\ UNCHANGED <<directors, genres, movies, movie_genres, last_movie_id, request,
                   inflight, engine, SessionLocal>>

ServiceAddRating(movie_id, score) ==
    IF ~ScoreValid(score)
    THEN [response |-> Raised("ValidationError",
                              "Score must be an integer between 1 and 10", <<>>),
          rows |-> movie_ratings]
    ELSE LET r == RepoAddRating(movie_id, score)
             calls == <<"add_rating">>
         IN IF r.raised # ""
            THEN [response |-> Raised(r.raised, ExceptionText(r.raised), calls),
                  rows |-> r.rows]
            ELSE IF r.rating = None
            THEN [response |-> Raised("NotFoundError", "Movie not found", calls),
                  rows |-> r.rows]
            ELSE [response |->
                     Returned(calls, [rating_id |-> r.rating[1].id,
                                      movie_id |-> r.rating[1].movie_id,
                                      score |-> r.rating[1].score]),
                  rows |-> r.rows]

(* add_rating as a worker process runs it, statement by statement, beside  *)
(* the other worker.  The worker takes a request and RatingService tests   *)
(* the score ...                                                           *)
WorkerReceive(w, movie_id, score) ==
    /\ inflight[w].pc = "idle"
    /\ last_rating_id + Cardinality({v \in Workers : inflight[v].pc # "idle"}) < MaxRatings
    /\ inflight' = [inflight EXCEPT ![w] =
          [pc |-> IF ScoreValid(score) THEN "validated" ELSE "done",
           movie_id |-> movie_id, score |-> score,
           stored |-> movie_id \in DOMAIN movies,
           outcome |-> IF ScoreValid(score) THEN NoResponse
                       ELSE Raised("ValidationError",
                                   "Score must be an integer between 1 and 10", <<>>)]]
    /\ UNCHANGED <<tables, session, request, response, engine, SessionLocal>>

(* ... RatingRepository.add_rating looks the movie up in its own Session   *)
(* and returns None when there is none ...                                 *)
WorkerQuery(w) ==
    /\ inflight[w].pc = "validated"
    /\ inflight' = [inflight EXCEPT ![w] =
          IF inflight[w].movie_id \in DOMAIN movies
          THEN [@ EXCEPT !.pc = "found"]
          ELSE [@ EXCEPT !.pc = "done",
                         !.outcome = Raised("NotFoundError", "Movie not found",
                                            <<"add_rating">>)]]
    /\ UNCHANGED <<tables, session, request, response, engine, SessionLocal>>

(* ... constructs the MovieRating, inserts it and commits: the row takes   *)
(* the next id of the sequence, whatever the other worker has committed.   *)
WorkerInsert(w) ==
    /\ inflight[w].pc = "found"
    /\ LET work == inflight[w]
           raised == IF ~ConstructorAccepts(MovieRatingAttributes, AddRatingKwargs)
                     THEN "TypeError"
                     ELSE IF ~RatingRowAccepted(work.movie_id, work.score)
                     THEN "IntegrityError"
                     ELSE ""
           row == [id |-> NextRatingId, movie_id |-> work.movie_id, score |-> work.score]
       IN IF raised # ""
          THEN /\ inflight' = [inflight EXCEPT ![w] =
                     [@ EXCEPT !.pc = "done",
                               !.outcome = Raised(raised, ExceptionText(raised),
                                                  <<"add_rating">>)]]
               /\ UNCHANGED <<movie_ratings, last_rating_id>>
          ELSE /\ movie_ratings' = Append(movie_ratings, row)
               /\ last_rating_id' = NextRatingId
               /\ inflight' = [inflight EXCEPT ![w] =
                     [@ EXCEPT !.pc = "done",
                               !.outcome =
                                   Returned(<<"add_rating">>,
                                            [rating_id |-> row.id,
                                             movie_id |-> row.movie_id,
                                             score |-> row.score])]]
    /\ UNCHANGED <<directors, genres, movies, movie_genres, last_movie_id,
                   session, request, response, engine, SessionLocal>>

(* The worker has answered and takes the next request. *)
WorkerRespond(w) ==
    /\ inflight[w].pc = "done"
    /\ inflight' = [inflight EXCEPT ![w] = NoWork]
    /\ UNCHANGED <<tables, session, request, response, engine, SessionLocal>>

AddRating(movie_id, score) ==
    /\ Idle
    /\ UNCHANGED <<session, inflight, engine, SessionLocal>>
    /\ last_rating_id < MaxRatings
    /\ request' = [op |-> "add_rating", movie_id |-> movie_id, score |-> score]
    /\ LET out == ServiceAddRating(movie_id, score)
       IN /\ response' = out.response
          /\ movie_ratings' = out.rows
          /\ last_rating_id' = IF out.rows = movie_ratings THEN last_rating_id
                               ELSE NextRatingId
    /\ UNCHANGED <<directors, genres, movies, movie_genres, last_movie_id>>

-----------------------------------------------------------------------------
(* Controllers: MovieAPI and RatingAPI                                     *)

(* The endpoint's response_model applied to the payload: MovieOut keeps    *)
(* id, title, release_year, director (id and name), genres and             *)
(* average_rating; MoviesPageData holds MovieOut items.                    *)
MovieOut(data) ==
    [id |-> data.id, title |-> data.title, release_year |-> data.release_year,
     director |-> [id |-> data.director.id, name |-> data.director.name],
     genres |-> data.genres, average_rating |-> data.average_rating]

ResponseModel(op, data) ==
    CASE op = "get_movies_paginated" ->
            [page |-> data.page, page_size |-> data.page_size,
             total_items |-> data.total_items,
             items |-> [i \in 1..Len(data.items) |-> MovieOut(data.items[i])]]
      [] op \in {"get_movie_detail", "create_movie", "update_movie"} -> MovieOut(data)
      [] OTHER -> data

(* The status of the endpoint's success response *)
SuccessStatus(op) ==
    CASE op \in {"create_movie", "add_rating"} -> 201
      [] op = "delete_movie" -> 204
      [] OTHER -> 200

(* Endpoints with a clause for ValidationError only *)
ExceptClausesNoNotFound(op) == {"ValidationError"}

(* The exceptions the endpoint has an except clause for, other than the    *)
(* last clause, `except Exception`.                                        *)
ExceptClauses(op) ==
    CASE op \in {"get_movies_paginated", "create_movie"} -> {"ValidationError"}
      [] op = "delete_movie" -> {"NotFoundError"}
      [] OTHER -> {"NotFoundError", "ValidationError"}

(* The status of a validation failure in the style of 400 Bad Request *)
ErrorStatusBadRequest(kind) == IF kind = "NotFoundError" THEN 404 ELSE 400

ErrorStatus(kind) == IF kind = "NotFoundError" THEN 404 ELSE 422

(* What the endpoint `op` answers to the outcome of its service call.      *)
(* HTTPException(status_code, detail) is answered by FastAPI with that     *)
(* status and the body {"detail": detail}.  A detail that is a string s    *)
(* is written [text |-> s], which tells it from a detail that is an object.*)
Answer(op, outcome) ==
    IF outcome.kind = "success"
    THEN [status_code |-> SuccessStatus(op),
          body |-> IF op = "delete_movie" THEN None
                   ELSE Some([status |-> "success",
                              data |-> ResponseModel(op, outcome.data)])]
    ELSE IF outcome.kind \in ExceptClauses(op)
    THEN [status_code |-> ErrorStatus(outcome.kind),
          body |-> Some([detail |->
                      [status |-> "failure",
                       error |-> [code |-> ErrorStatus(outcome.kind),
                                  message |-> outcome.message]]])]
    ELSE [status_code |-> 500, body |-> Some([detail |-> [text |-> outcome.message]])]

(* The HTTP response to the request being served *)
http == Answer(request.op, response)

(* A request whose first repository call finds the database unreachable:  *)
(* opening the connection raises OperationalError out of the repository    *)
(* and out of the service.                                                 *)
GetMovieDetailDatabaseDown(movie_id) ==
    /\ Idle
    /\ request' = [op |-> "get_movie_detail", movie_id |-> movie_id]
    /\ response' = Raised("OperationalError", ExceptionText("OperationalError"),
                          <<"get_by_id">>)
    /\ UNCHANGED <<tables, session, inflight, engine, SessionLocal>>

DeleteMovieDatabaseDown(movie_id) ==
    /\ Idle
    /\ request' = [op |-> "delete_movie", movie_id |-> movie_id]
    /\ response' = Raised("OperationalError", ExceptionText("OperationalError"),
                          <<"delete_movie">>)
    /\ UNCHANGED <<tables, session, inflight, engine, SessionLocal>>

(* The controller answers and the next request may be served. *)
Complete ==
    /\ ~Idle
    /\ ~session.pending
    /\ response.kind # "pending"
    /\ UNCHANGED <<session, inflight, engine, SessionLocal>>
    /\ request' = NoRequest
    /\ response' = NoResponse
    /\ UNCHANGED tables

-----------------------------------------------------------------------------
(* Requests                                                                *)

MovieIdArgs == 1..(MaxMovies + 1)
DirectorIdArgs == {1, 2, 3}
YearArgs == {Some(y) : y \in (MIN_RELEASE_YEAR - 1)..(current_year + 1)}
GenreIdsArgs == {<<>>, <<1>>, <<2, 1>>, <<2, 2>>, <<1, 3>>}
TitleAB == <<"a", "b">>
TitleB == <<"B">>

(* The catalogue: every handler of MovieService that writes, and the       *)
(* detail read, over every combination of valid and invalid director,      *)
(* release year and genre ids.                                             *)
Next ==
    \/ \E d \in DirectorIdArgs, y \in YearArgs \cup {None}, g \in GenreIdsArgs :
          CreateMovie(TitleAB, d, y, Some("c"), g)
    \/ \E m \in MovieIdArgs, y \in YearArgs, g \in GenreIdsArgs :
          UpdateMovie(m, TitleB, y, None, g)
    \/ \E m \in MovieIdArgs : DeleteMovie(m)
    \/ \E m \in MovieIdArgs : GetMovieDetail(m)
    \/ \E y \in YearArgs : GetMoviesPaginated(1, MAX_PAGE_SIZE, <<>>, y, "")
    \/ Complete

Spec == Init /\ [][Next]_vars

(* Ratings: add_rating over in-range and out-of-range scores, rating rows  *)
(* inserted by other clients of the database, and the reads that average   *)
(* them.                                                                    *)
ScoreArgs == {MinScore - 1, MinScore, 5, MaxScore, MaxScore + 1}
RowScoreArgs == {0, 4, 5, 8, 11}

NextRatings ==
    \/ CreateMovie(TitleAB, 1, Some(MIN_RELEASE_YEAR), Some("c"), <<1>>)
    \/ \E m \in MovieIdArgs : UpdateMovie(m, TitleAB, Some(MIN_RELEASE_YEAR), Some("c"), <<1>>)
    \/ \E m \in MovieIdArgs : DeleteMovie(m)
    \/ \E m \in MovieIdArgs, sc \in ScoreArgs : AddRating(m, sc)
    \/ \E m \in MovieIdArgs, sc \in RowScoreArgs : InsertRatingRow(m, sc)
    \/ \E m \in MovieIdArgs : GetMovieDetail(m)
    \/ \E p \in {1, 2}, ps \in {1, MAX_PAGE_SIZE} : GetMoviesPaginated(p, ps, <<>>, None, "")
    \/ Complete

SpecRatings == Init /\ [][NextRatings]_vars

(* Listings: movies that differ in title, release year and genres, listed  *)
(* over valid and invalid pages and page sizes and every filter.           *)
PageArgs == 0..(MaxMovies + 1)
PageSizeArgs == (0 - 1)..(MAX_PAGE_SIZE + 1)
TitleFilterArgs == {<<>>, <<"A">>, <<"_">>}
YearFilterArgs == {None, Some(MIN_RELEASE_YEAR), Some(current_year + 1)}
GenreFilterArgs == {"", "comedy"}

NextList ==
    \/ \E t \in {TitleAB, TitleB}, y \in {Some(MIN_RELEASE_YEAR), Some(current_year)},
          g \in {<<1>>, <<1, 2>>} :
          CreateMovie(t, 1, y, None, g)
    \/ \E p \in PageArgs, ps \in PageSizeArgs, t \in TitleFilterArgs,
          y \in YearFilterArgs, g \in GenreFilterArgs :
          GetMoviesPaginated(p, ps, t, y, g)
    \/ Complete

SpecList == Init /\ [][NextList]_vars

(* Updates and deletions of movies that have genre links and ratings,     *)
(* among other movies that have them too.                                  *)
NextCascade ==
    \/ \E g \in {<<1>>, <<1, 2>>} :
          CreateMovie(TitleAB, 1, Some(MIN_RELEASE_YEAR), Some("c"), g)
    \/ \E m \in MovieIdArgs, g \in {<<>>, <<2>>} :
          UpdateMovie(m, TitleB, Some(current_year), None, g)
    \/ \E m \in MovieIdArgs : DeleteMovie(m)
    \/ \E m \in MovieIdArgs, sc \in {MinScore - 1, MaxScore} : InsertRatingRow(m, sc)
    \/ \E m \in MovieIdArgs : AddRating(m, MaxScore)
    \/ \E m \in MovieIdArgs : GetMovieDetail(m)
    \/ GetMoviesPaginated(1, MAX_PAGE_SIZE, <<>>, None, "")
    \/ Complete

SpecCascade == Init /\ [][NextCascade]_vars

-----------------------------------------------------------------------------
(* db/database.py: the process-wide engine and session factory            *)

(* The database URLs init_engine is called with, and DATABASE_URL's        *)
(* default in get_session.                                                 *)
DatabaseUrls == {"postgresql://a", "postgresql://b"}
DefaultDatabaseUrl == "postgresql://localhost"

(* The globals _engine and _SessionLocal after close_engine, had it        *)
(* cleared _engine only                                                    *)
CloseEngineKeepsFactory(g) ==
    IF g.engine # None THEN [g EXCEPT !.engine = None] ELSE g

(* The globals after close_engine *)
CloseEngineGlobals(g) ==
    IF g.engine # None THEN [engine |-> None, SessionLocal |-> None] ELSE g

(* The globals after init_engine(database_url): the engine made by         *)
(* create_engine is written as its URL, the sessionmaker as its bind.      *)
InitEngineGlobals(g, database_url) ==
    IF g.engine = None
    THEN [engine |-> Some(database_url), SessionLocal |-> Some([bind |-> database_url])]
    ELSE g

Globals == [engine |-> engine, SessionLocal |-> SessionLocal]

(* init_engine *)
InitEngine(database_url) ==
    /\ Idle
    /\ request' = [op |-> "init_engine", database_url |-> database_url]
    /\ engine' = InitEngineGlobals(Globals, database_url).engine
    /\ SessionLocal' = InitEngineGlobals(Globals, database_url).SessionLocal
    /\ response' = Returned(<<>>, None)
    /\ UNCHANGED <<tables, session, inflight>>

(* close_engine *)
CloseEngine ==
    /\ Idle
    /\ request' = [op |-> "close_engine"]
    /\ engine' = CloseEngineGlobals(Globals).engine
    /\ SessionLocal' = CloseEngineGlobals(Globals).SessionLocal
    /\ response' = Returned(<<>>, None)
    /\ UNCHANGED <<tables, session, inflight>>

(* get_sessionmaker *)
GetSessionmaker ==
    /\ Idle
    /\ request' = [op |-> "get_sessionmaker"]
    /\ response' = IF SessionLocal = None
                   THEN Raised("RuntimeError",
                               "Sessionmaker is not initialized; call init_engine first",
                               <<>>)
                   ELSE Returned(<<>>, SessionLocal[1])
    /\ UNCHANGED <<tables, session, inflight, engine, SessionLocal>>

(* get_session up to its yield: the engine is initialized from             *)
(* DATABASE_URL when there is no session factory, and a Session is made.   *)
GetSessionYield ==
    /\ Idle
    /\ request' = [op |-> "get_session"]
    /\ LET g == IF SessionLocal = None
                THEN InitEngineGlobals(Globals, DefaultDatabaseUrl)
                ELSE Globals
       IN /\ engine' = g.engine
          /\ SessionLocal' = g.SessionLocal
    /\ session' = [pending |-> FALSE, open |-> 1]
    /\ response' = [kind |-> "pending", message |-> "", calls |-> <<>>, data |-> None]
    /\ UNCHANGED <<tables, inflight>>

(* get_session after its yield: the Session is closed in the finally *)
GetSessionClose ==
    /\ request.op = "get_session"
    /\ response.kind = "pending"
    /\ session' = NoSession
    /\ response' = Returned(<<>>, None)
    /\ UNCHANGED <<tables, request, inflight, engine, SessionLocal>>

(* The calls of db/database.py in any order, as the lifespan of the        *)
(* application and any other caller make them, beside requests served.     *)
NextEngine ==
    \/ \E u \in DatabaseUrls : InitEngine(u)
    \/ CloseEngine
    \/ GetSessionmaker
    \/ GetSessionYield
    \/ GetSessionClose
    \/ \E d \in {1, 2} : CreateMovie(TitleAB, d, Some(MIN_RELEASE_YEAR), None, <<1>>)
    \/ \E m \in MovieIdArgs : GetMovieDetail(m)
    \/ Complete

SpecEngine == Init /\ [][NextEngine]_vars

(* Two workers that serve add_rating side by side, every interleaving of   *)
(* their statements, over stored and missing movies.                       *)
NextConcurrent ==
    \/ CreateMovie(TitleAB, 1, Some(MIN_RELEASE_YEAR), None, <<1>>)
    \/ \E w \in Workers, m \in MovieIdArgs, sc \in {MinScore - 1, 4, 9} :
          WorkerReceive(w, m, sc)
    \/ \E w \in Workers : WorkerQuery(w)
    \/ \E w \in Workers : WorkerInsert(w)
    \/ \E w \in Workers : WorkerRespond(w)
    \/ \E m \in MovieIdArgs : GetMovieDetail(m)
    \/ Complete

SpecConcurrent == Init /\ [][NextConcurrent]_vars

(* create_movie statement by statement, ratings and delete_movie, while    *)
(* another client of the database deletes directors and genres.            *)
NextIntegrity ==
    \/ \E d \in {1, 2}, g \in {<<1>>, <<2, 1>>} :
          ServiceCreateMovieChecks(TitleAB, d, Some(current_year), None, g)
    \/ ServiceCreateMovieFlush
    \/ RepoCreateMovieCommit
    \/ \E d \in {1, 2} : DeleteDirectorRow(d)
    \/ \E g \in {1, 2} : DeleteGenreRow(g)
    \/ \E m \in MovieIdArgs : InsertRatingRow(m, MaxScore)
    \/ \E m \in MovieIdArgs : DeleteMovie(m)
    \/ Complete

SpecIntegrity == Init /\ [][NextIntegrity]_vars

(* update_movie and add_rating over valid and invalid inputs, on stored    *)
(* and on missing movies.                                                  *)
NextValidation ==
    \/ CreateMovie(TitleAB, 1, Some(MIN_RELEASE_YEAR), Some("c"), <<1>>)
    \/ \E m \in MovieIdArgs, y \in YearArgs, g \in GenreIdsArgs :
          UpdateMovie(m, TitleB, y, None, g)
    \/ \E m \in MovieIdArgs, sc \in ScoreArgs : AddRating(m, sc)
    \/ \E m \in MovieIdArgs : DeleteMovie(m)
    \/ Complete

SpecValidation == Init /\ [][NextValidation]_vars

(* The HTTP surface: every endpoint, on the requests that pass the         *)
(* framework's validation of path, query and body (ids and pages from 1,   *)
(* a release_year in every body), with the database reachable or not.      *)
NextApi ==
    \/ \E p \in {1, 2}, ps \in {1, MAX_PAGE_SIZE + 1},
          y \in {None, Some(current_year), Some(current_year + 1)} :
          GetMoviesPaginated(p, ps, <<>>, y, "")
    \/ \E m \in MovieIdArgs : GetMovieDetail(m)
    \/ \E d \in {1, 3}, y \in {Some(current_year), Some(current_year + 1)},
          g \in {<<1>>, <<1, 3>>} :
          CreateMovie(TitleAB, d, y, None, g)
    \/ \E m \in MovieIdArgs, y \in {Some(MIN_RELEASE_YEAR), Some(MIN_RELEASE_YEAR - 1)},
          g \in {<<2>>, <<2, 2>>} :
          UpdateMovie(m, TitleB, y, None, g)
    \/ \E m \in MovieIdArgs : DeleteMovie(m)
    \/ \E m \in MovieIdArgs, sc \in ScoreArgs : AddRating(m, sc)
    \/ \E m \in MovieIdArgs : GetMovieDetailDatabaseDown(m)
    \/ \E m \in MovieIdArgs : DeleteMovieDatabaseDown(m)
    \/ Complete

SpecApi == Init /\ [][NextApi]_vars

(* Transactions: MovieRepository.create_movie statement by statement, on   *)
(* arguments its caller would have refused as well, among deletions and    *)
(* reads.                                                                  *)
NextTxn ==
    \/ \E d \in DirectorIdArgs, g \in GenreIdsArgs :
          RepoCreateMovieFlush(TitleAB, d, Some(current_year), None, g)
    \/ RepoCreateMovieCommit
    \/ \E m \in MovieIdArgs : RepoAddRatingQuery(m, MaxScore)
    \/ RepoAddRatingReturn
    \/ \E m \in MovieIdArgs : DeleteMovie(m)
    \/ \E m \in MovieIdArgs : GetMovieDetail(m)
    \/ Complete

SpecTxn == Init /\ [][NextTxn]_vars

-----------------------------------------------------------------------------
(* Properties                                                              *)

(* The step that serves a request `op` *)
Serves(op) == Idle /\ request'.op = op

(* C1: add_rating with a score outside 1..10, for an existing or a missing *)
(* movie, raises ValidationError, calls no repository method and leaves    *)
(* the stored ratings as they were.                                        *)
C1_OutOfRangeScoreRejected ==
    [][(Serves("add_rating") /\ (request'.score < 1 \/ request'.score > 10))
          => /\ response'.kind = "ValidationError"
             /\ response'.calls = <<>>
             /\ movie_ratings' = movie_ratings]_vars

C1_Witness ==
    /\ request.op = "add_rating"
    /\ request.score = 11
    /\ request.movie_id \in DOMAIN movies
    /\ movie_ratings # <<>>
    /\ response.kind = "ValidationError"

(* C2: add_rating with a score in 1..10 on an existing movie succeeds,     *)
(* commits exactly one new rating row with that movie and score, and       *)
(* returns it.                                                             *)
C2_ValidRatingCreated ==
    [][(/\ Serves("add_rating")
        /\ request'.score >= 1 /\ request'.score <= 10
        /\ request'.movie_id \in DOMAIN movies)
          => /\ response'.kind = "success"
             /\ Len(movie_ratings') = Len(movie_ratings) + 1
             /\ SubSeq(movie_ratings', 1, Len(movie_ratings)) = movie_ratings
             /\ movie_ratings'[Len(movie_ratings')].movie_id = request'.movie_id
             /\ movie_ratings'[Len(movie_ratings')].score = request'.score
             /\ response'.data.movie_id = request'.movie_id
             /\ response'.data.score = request'.score
             /\ response'.data.rating_id = movie_ratings'[Len(movie_ratings')].id]_vars

(* C3: add_rating with a score in 1..10 and the id of no stored movie      *)
(* raises NotFoundError out of the repository's absent result, and inserts *)
(* no rating row.                                                          *)
C3_MissingMovieNotFound ==
    [][(/\ Serves("add_rating")
        /\ request'.score >= 1 /\ request'.score <= 10
        /\ request'.movie_id \notin DOMAIN movies)
          => /\ response'.kind = "NotFoundError"
             /\ response'.calls = <<"add_rating">>
             /\ movie_ratings' = movie_ratings]_vars

C3_Witness ==
    /\ request.op = "add_rating"
    /\ request.score = 10
    /\ request.movie_id \notin DOMAIN movies
    /\ movies # <<>>
    /\ response.kind = "NotFoundError"

(* C4: every stored rating has a score between 1 and 10. *)
C4_StoredScoresInRange ==
    \A i \in 1..Len(movie_ratings) :
        /\ movie_ratings[i].score \in Int
        /\ 1 <= movie_ratings[i].score /\ movie_ratings[i].score <= 10

C4_Witness ==
    /\ Len(movie_ratings) >= 2
    /\ request.op = "add_rating"
    /\ request.score = 0
    /\ request.movie_id \in DOMAIN movies

(* C5: the average_rating of a movie in a detail or a list response is     *)
(* null exactly when the movie has no rating, and otherwise is the mean of *)
(* the scores of that movie's ratings, and of no other movie's, to the     *)
(* nearest tenth.                                                          *)
RECURSIVE ScoreTotal(_, _)
ScoreTotal(movie_id, n) ==
    IF n = 0 THEN 0
    ELSE ScoreTotal(movie_id, n - 1) +
         (IF movie_ratings[n].movie_id = movie_id THEN movie_ratings[n].score ELSE 0)

ScoreCount(movie_id) ==
    Cardinality({i \in 1..Len(movie_ratings) : movie_ratings[i].movie_id = movie_id})

Distance(a, b) == IF a < b THEN b - a ELSE a - b

AverageIsMean(item) ==
    LET n == ScoreCount(item.id)
        total == ScoreTotal(item.id, Len(movie_ratings))
    IN IF n = 0 THEN item.average_rating = None
       ELSE /\ item.average_rating # None
            /\ 2 * Distance(item.average_rating[1] * n, 10 * total) <= n

C5_AverageIsRoundedMean ==
    /\ (request.op = "get_movie_detail" /\ response.kind = "success")
          => AverageIsMean(response.data)
    /\ (request.op = "get_movies_paginated" /\ response.kind = "success")
          => \A i \in 1..Len(response.data.items) : AverageIsMean(response.data.items[i])

(* A movie rated 4 and 8 shows 6.0 while another movie has ratings of its own *)
C5_Witness ==
    /\ request.op = "get_movie_detail"
    /\ response.kind = "success"
    /\ ScoreCount(request.movie_id) = 2
    /\ ScoreTotal(request.movie_id, Len(movie_ratings)) = 12
    /\ Len(movie_ratings) = 3
    /\ response.data.average_rating = Some(60)

(* What the claims call a match of the filters: the title filter is a      *)
(* substring of the title, case ignored; the release year is equal; the    *)
(* movie is linked to a genre of that name.  An absent filter admits all.  *)
ContainsIgnoringCase(text, part) ==
    \E k \in 0..(Len(text) - Len(part)) :
        \A i \in 1..Len(part) : Lower(text[k + i]) = Lower(part[i])

MatchesFilters(m, title, release_year, genre) ==
    /\ title # <<>> => ContainsIgnoringCase(movies[m].title, title)
    /\ release_year # None => movies[m].release_year = release_year
    /\ genre # "" => \E g \in DOMAIN genres :
                         <<m, g>> \in movie_genres /\ genres[g].name = genre

MatchingMovies(req) ==
    {m \in DOMAIN movies : MatchesFilters(m, req.title, req.release_year, req.genre)}

ValidPage(req) ==
    req.page >= 1 /\ req.page_size >= 1 /\ req.page_size <= MAX_PAGE_SIZE

YearFilterAccepted(req) ==
    \/ req.release_year = None
    \/ /\ req.release_year[1] >= MIN_RELEASE_YEAR
       /\ req.release_year[1] <= current_year

(* C6: get_movies_paginated with page < 1, or a page_size that is 0,       *)
(* negative or above the maximum, raises ValidationError and calls no      *)
(* repository method.                                                      *)
C6_InvalidPaginationRejected ==
    (request.op = "get_movies_paginated" /\ ~ValidPage(request))
        => response.kind = "ValidationError" /\ response.calls = <<>>

(* C7: with page >= 1 and 1 <= page_size <= max, under every combination   *)
(* of filters the listing returns at most page_size items and a            *)
(* total_items equal to the number of distinct stored movies that match    *)
(* the filters.                                                            *)
C7_PageBoundedTotalExact ==
    (/\ request.op = "get_movies_paginated"
     /\ ValidPage(request)
     /\ YearFilterAccepted(request))
        => /\ response.kind = "success"
           /\ Len(response.data.items) <= request.page_size
           /\ response.data.total_items = Cardinality(MatchingMovies(request))

(* C8: the items of page p of size s are the elements at positions         *)
(* (p-1)*s+1 .. p*s of the movies matching the filters in ascending order  *)
(* of id.                                                                  *)
ExpectedPage(req) ==
    LET ordered == OrderById(MatchingMovies(req))
        first == (req.page - 1) * req.page_size + 1
        last == IF req.page * req.page_size < Len(ordered)
                THEN req.page * req.page_size ELSE Len(ordered)
    IN [i \in 1..(IF last < first THEN 0 ELSE last - first + 1) |-> ordered[first + i - 1]]

C8_PageIsSliceOfMatches ==
    (/\ request.op = "get_movies_paginated"
     /\ ValidPage(request)
     /\ response.kind = "success")
        => [i \in 1..Len(response.data.items) |-> response.data.items[i].id]
              = ExpectedPage(request)

(* C9: create_movie with the director_id of no stored director raises      *)
(* ValidationError, never calls the repository's create_movie, and leaves  *)
(* movies and movie_genres as they were.                                   *)
C9_UnknownDirectorRejected ==
    [][(Serves("create_movie") /\ request'.director_id \notin DOMAIN directors)
          => /\ response'.kind = "ValidationError"
             /\ "create_movie" \notin Range(response'.calls)
             /\ movies' = movies
             /\ movie_genres' = movie_genres]_vars

(* C10: create_movie and update_movie raise ValidationError and change     *)
(* nothing when the genre id list names an id of no stored genre or names  *)
(* an id twice (the number of stored genres whose id is in the list is not *)
(* the length of the list).                                                *)
StoredGenresIn(genre_ids) ==
    Cardinality({g \in DOMAIN genres : \E i \in 1..Len(genre_ids) : genre_ids[i] = g})

C10_BadGenreIdsRejected ==
    [][(/\ Serves("create_movie") \/ Serves("update_movie")
        /\ StoredGenresIn(request'.genre_ids) # Len(request'.genre_ids))
          => /\ response'.kind = "ValidationError"
             /\ tables' = tables]_vars

(* C11: in create_movie, update_movie and the release_year filter of       *)
(* get_movies_paginated a provided release_year below the configured       *)
(* minimum or above the current year raises ValidationError before any     *)
(* repository call and changes nothing, and a release_year equal to the    *)
(* configured minimum or to the current year is not refused as a year.     *)
C11_ReleaseYearRangeEnforced ==
    [][(/\ \/ Serves("create_movie")
           \/ Serves("update_movie")
           \/ Serves("get_movies_paginated")
        /\ request'.release_year # None)
          => LET year == request'.release_year[1]
             IN /\ (year < MIN_RELEASE_YEAR \/ year > current_year)
                      => /\ response'.kind = "ValidationError"
                         /\ response'.calls = <<>>
                         /\ tables' = tables
                /\ (year = MIN_RELEASE_YEAR \/ year = current_year)
                      => ~(/\ response'.kind = "ValidationError"
                           /\ response'.message = "Invalid release_year")]_vars

C11_Witness ==
    /\ request.op = "update_movie"
    /\ request.movie_id \in DOMAIN movies
    /\ request.release_year = Some(current_year + 1)
    /\ response.kind = "ValidationError"

(* C12: create_movie with no release_year (None), a stored director and    *)
(* genre ids that each name one stored genre once applies no year test and *)
(* creates the movie with a null release_year.                             *)
C12_NullReleaseYearCreates ==
    [][(/\ Serves("create_movie")
        /\ request'.release_year = None
        /\ request'.director_id \in DOMAIN directors
        /\ StoredGenresIn(request'.genre_ids) = Len(request'.genre_ids))
          => /\ response'.kind = "success"
             /\ DOMAIN movies' = DOMAIN movies \cup {response'.data.id}
             /\ movies'[response'.data.id].release_year = None]_vars

(* C13: a successful create_movie returns a payload with the requested     *)
(* title, release_year and cast, the director whose id is director_id, the *)
(* names of exactly the requested genre ids, a null average_rating and a   *)
(* ratings_count of 0, and get_movie_detail on the returned id, asked      *)
(* next, returns that same payload.                                        *)
C13_CreateThenGetRoundTrip ==
    [][(Serves("create_movie") /\ response'.kind = "success")
          => LET created == response'.data
                 got == ServiceGetMovieDetail(Store', created.id)
             IN /\ got.kind = "success"
                /\ got.data = created
                /\ created.title = request'.title
                /\ created.release_year = request'.release_year
                /\ created.cast = request'.cast
                /\ created.director.id = Some(request'.director_id)
                /\ created.director.name = Some(directors[request'.director_id].name)
                /\ created.genres =
                      {genres[request'.genre_ids[i]].name :
                          i \in 1..Len(request'.genre_ids)}
                /\ created.average_rating = None
                /\ created.ratings_count = 0]_vars

C13_Witness ==
    /\ request.op = "create_movie"
    /\ response.kind = "success"
    /\ request.genre_ids = <<2, 1>>
    /\ response.data.genres = {"drama", "comedy"}
    /\ response.data.id = 2

(* C14: the creation of a movie is atomic.  In every committed state no    *)
(* movie_genres row names an absent movie, and a movie whose transaction   *)
(* is open is absent together with its rows; the step that ends the        *)
(* transaction leaves the movie present with one row for each requested    *)
(* genre id, or, when an insert fails, leaves neither the movie nor a row; *)
(* a create that fails at its first insert leaves nothing either.          *)
LinksOf(links, movie_id) == {mg \in links : mg[1] = movie_id}

C14_CreateIsAtomic ==
    [][/\ \A mg \in movie_genres' : mg[1] \in DOMAIN movies'
       /\ session'.pending
             => /\ session'.id \notin DOMAIN movies'
                /\ LinksOf(movie_genres', session'.id) = {}
       /\ (session.pending /\ ~session'.pending)
             => \/ /\ response'.kind = "success"
                   /\ session.id \in DOMAIN movies'
                   /\ LinksOf(movie_genres', session.id) =
                         {<<session.id, request.genre_ids[i]>> :
                             i \in 1..Len(request.genre_ids)}
                   /\ Cardinality(LinksOf(movie_genres', session.id)) =
                         Len(request.genre_ids)
                \/ /\ response'.kind # "success"
                   /\ session.id \notin DOMAIN movies'
                   /\ LinksOf(movie_genres', session.id) = {}
                   /\ movies' = movies /\ movie_genres' = movie_genres
       /\ (Serves("repo_create_movie") /\ ~session'.pending)
             => movies' = movies /\ movie_genres' = movie_genres]_vars

C14_Witness ==
    /\ request.op = "repo_create_movie"
    /\ request.director_id \in DOMAIN directors
    /\ request.genre_ids = <<1, 3>>
    /\ response.kind = "IntegrityError"
    /\ DOMAIN movies = {1}
    /\ last_movie_id = 2

C18_StatusFollowsFailureKind ==
    ~Idle =>
        /\ response.kind = "ValidationError" => http.status_code = 422
        /\ response.kind = "NotFoundError" => http.status_code = 404
        /\ response.kind \notin {"success", "ValidationError", "NotFoundError"}
              => http.status_code = 500
        /\ response.kind = "success" => http.status_code \in 200..299

C18_Witness ==
    /\ request.op = "update_movie"
    /\ request.movie_id \in DOMAIN movies
    /\ response.kind = "ValidationError"
    /\ response.calls = <<"count_genres_by_ids">>
    /\ http.status_code = 422

(* C19: every response with status 404, 422 or 500 carries the envelope   *)
(* {status: "failure", error: {code, message}} with code equal to the      *)
(* status, as its body or as the detail of its body.                       *)
IsEnvelope(json, code) ==
    /\ DOMAIN json = {"status", "error"}
    /\ json.status = "failure"
    /\ DOMAIN json.error = {"code", "message"}
    /\ json.error.code = code

C19_ErrorBodyIsEnvelope ==
    (~Idle /\ http.status_code \in {404, 422, 500})
        => /\ http.body # None
           /\ \/ IsEnvelope(http.body[1], http.status_code)
              \/ /\ DOMAIN http.body[1] = {"detail"}
                 /\ IsEnvelope(http.body[1].detail, http.status_code)

(* C20: the body of a 500 response is the same whatever exception caused   *)
(* it: it equals the body answered to add_rating's TypeError and the body  *)
(* answered to get_movie_detail's OperationalError alike.                  *)
InternalErrorBodies ==
    {Answer("add_rating",
            Raised("TypeError", ExceptionText("TypeError"), <<"add_rating">>)).body,
     Answer("get_movie_detail",
            Raised("OperationalError", ExceptionText("OperationalError"),
                   <<"get_by_id">>)).body}

C20_InternalErrorBodyIsGeneric ==
    (~Idle /\ http.status_code = 500)
        => \A body \in InternalErrorBodies : http.body = body

(* C21: every Session opened while a request is served is closed by the   *)
(* time the call returns or raises, whatever it raises; with no request in *)
(* flight no Session is open.                                              *)
C21_SessionsReleased ==
    response.kind # "pending" => session.open = 0

C21_Witness ==
    /\ request.op = "repo_add_rating"
    /\ request.movie_id \in DOMAIN movies
    /\ response.kind = "TypeError"
    /\ session.open = 0

(* C22: when two add_rating requests with valid scores on the same stored *)
(* movie, served side by side, have both ended, both have succeeded, each  *)
(* has its own committed row with its score, and get_movie_detail reports  *)
(* a ratings count and an average that take in both rows.                  *)
C22_ConcurrentRatingsBothCommitted ==
    (/\ \A w \in Workers : /\ inflight[w].pc = "done"
                           /\ inflight[w].stored
                           /\ ScoreValid(inflight[w].score)
     /\ inflight[1].movie_id = inflight[2].movie_id)
        => /\ \A w \in Workers :
                /\ inflight[w].outcome.kind = "success"
                /\ \E i \in 1..Len(movie_ratings) :
                      /\ movie_ratings[i].id = inflight[w].outcome.data.rating_id
                      /\ movie_ratings[i].movie_id = inflight[w].movie_id
                      /\ movie_ratings[i].score = inflight[w].score
           /\ inflight[1].outcome.data.rating_id # inflight[2].outcome.data.rating_id
           /\ LET detail == ServiceGetMovieDetail(Store, inflight[1].movie_id)
              IN /\ detail.kind = "success"
                 /\ detail.data.ratings_count >= 2
                 /\ AverageIsMean(detail.data)

(* C23: in the response to the list endpoint every item has a director of *)
(* id and name only and neither cast nor ratings_count; in the responses   *)
(* to GET /movies/{id}, to create and to update the movie has the          *)
(* director's id, name, birth_year and description, the cast, and a        *)
(* ratings_count that is the number of the movie's committed ratings.      *)
C23_ListReducedDetailFull ==
    response.kind = "success" =>
        /\ request.op = "get_movies_paginated" =>
              \A i \in 1..Len(http.body[1].data.items) :
                 LET item == http.body[1].data.items[i]
                 IN /\ DOMAIN item.director = {"id", "name"}
                    /\ {"cast", "ratings_count"} \cap DOMAIN item = {}
        /\ request.op \in {"get_movie_detail", "create_movie", "update_movie"} =>
              LET movie == http.body[1].data
              IN /\ DOMAIN movie.director = {"id", "name", "birth_year", "description"}
                 /\ {"cast", "ratings_count"} \subseteq DOMAIN movie
                 /\ movie.ratings_count = ScoreCount(movie.id)

(* C24: in every committed state, whatever the interleaving and also when *)
(* a director or a genre is deleted by another client between the checks   *)
(* of create_movie and its insert, every movie's director_id is the id of  *)
(* a stored director, every movie_genres row is of a stored movie and a    *)
(* stored genre, and every rating is of a stored movie.                    *)
C24_ReferentialIntegrity ==
    /\ \A m \in DOMAIN movies : movies[m].director_id \in DOMAIN directors
    /\ \A mg \in movie_genres : mg[1] \in DOMAIN movies /\ mg[2] \in DOMAIN genres
    /\ \A i \in 1..Len(movie_ratings) : movie_ratings[i].movie_id \in DOMAIN movies

(* C25: validation comes before the lookup of the movie.  update_movie on *)
(* the id of no stored movie with a release_year out of range, or with     *)
(* genre ids that are not each the id of one stored genre, and add_rating  *)
(* on the id of no stored movie with a score out of range, raise           *)
(* ValidationError, answered 422, and not NotFoundError; the repository's  *)
(* update_movie or add_rating is not called and nothing stored changes.    *)
WritePathCalled(calls) ==
    \E i \in 1..Len(calls) : calls[i] \in {"update_movie", "add_rating"}

C25_ValidationBeforeLookup ==
    [][/\ (/\ Serves("update_movie")
           /\ request'.movie_id \notin DOMAIN movies
           /\ \/ request'.release_year[1] < MIN_RELEASE_YEAR
              \/ request'.release_year[1] > current_year
              \/ StoredGenresIn(request'.genre_ids) # Len(request'.genre_ids))
             => /\ response'.kind = "ValidationError"
                /\ http'.status_code = 422
                /\ ~WritePathCalled(response'.calls)
                /\ tables' = tables
       /\ (/\ Serves("add_rating")
           /\ request'.movie_id \notin DOMAIN movies
           /\ request'.score < MinScore \/ request'.score > MaxScore)
             => /\ response'.kind = "ValidationError"
                /\ http'.status_code = 422
                /\ ~WritePathCalled(response'.calls)
                /\ tables' = tables]_vars

C25_Witness ==
    /\ request.op = "update_movie"
    /\ request.movie_id \notin DOMAIN movies
    /\ request.release_year = Some(MIN_RELEASE_YEAR)
    /\ request.genre_ids = <<1, 3>>
    /\ DOMAIN movies # {}
    /\ response.kind = "ValidationError"
    /\ http.status_code = 422

(* C26: over every sequence of calls of init_engine, close_engine and     *)
(* get_sessionmaker the engine and the session factory are both set or     *)
(* both unset; init_engine on an initialized engine changes neither, also  *)
(* when called with another URL; close_engine on an uninitialized engine   *)
(* changes nothing; get_sessionmaker raises RuntimeError when the engine   *)
(* is unset and returns the session factory when it is set.                *)
C26_EngineLifecycle ==
    /\ []((engine = None) <=> (SessionLocal = None))
    /\ [][/\ (Serves("init_engine") /\ engine # None)
               => /\ UNCHANGED <<engine, SessionLocal>>
                  /\ response'.kind = "success"
          /\ (Serves("init_engine") /\ engine = None)
               => /\ engine' = Some(request'.database_url)
                  /\ SessionLocal' # None
          /\ Serves("close_engine")
               => /\ engine' = None
                  /\ SessionLocal' = None
                  /\ response'.kind = "success"
          /\ Serves("get_sessionmaker")
               => /\ (response'.kind = "RuntimeError") <=> (engine = None)
                  /\ (response'.kind = "success") <=> (engine # None)
                  /\ (engine # None => response'.data = SessionLocal[1])
                  /\ UNCHANGED <<engine, SessionLocal>>]_vars

C26_Witness ==
    /\ request.op = "init_engine"
    /\ engine # None
    /\ engine # Some(request.database_url)
    /\ SessionLocal = Some([bind |-> engine[1]])
    /\ response.kind = "success"

====
